---- MODULE Spec2Model ----
(***************************************************************************)
(* Chat subsystem of the role-play server (src/api.js, registerRoutes):    *)
(* the WebSocket dispatcher with its connection map, the HTTP chat         *)
(* endpoints, and the message store / schema they call.  The store         *)
(* (./storage) and the schema (@shared/schema) are modelled from their     *)
(* contracts in spec.md sections 3, 4.1 and 4.4.                           *)
(***************************************************************************)
EXTENDS Integers, Sequences, FiniteSets, TLC

VARIABLES
    wsState,            \* ws.readyState of each transport handle; "closed" once
                        \* its 'close' event has been handled
    activeConnections,  \* Map<WebSocket, {userId, characterId?}>
    tasks,              \* handlers (WebSocket message, HTTP) suspended on an await
    log,                \* rows of the messages table, in id order
    sent,               \* per handle, the payloads passed to its send()
    ev,                 \* the handler step taken last (observation)
    nEvents,            \* client events received so far
    now,                \* the clock that stamps createdAt and archivedAt
    rooms,              \* rows of the chat_rooms table, in id order
    seedPc              \* position of the room-initialisation routine

vars == <<wsState, activeConnections, tasks, log, sent, ev, nEvents, now, rooms, seedPc>>

(***************************************************************************)
(* Bounds of the model.                                                    *)
(***************************************************************************)
NumConns == 2
NumChars == 2
NumRooms == 2
MaxEvents == 3
MaxPad == 1
MaxLog == 3
MaxPending == 2
MaxTime == 2

(***************************************************************************)
(* Program constants.                                                      *)
(***************************************************************************)
MaxContentLen == 5000
DefaultLimit == 50
DefaultOffset == 0

Conns == 1..NumConns
Users == 1..NumChars
Rooms == 1..NumRooms

(***************************************************************************)
(* Optional values (a JS value that may be undefined).                     *)
(***************************************************************************)
None == <<>>
Some(v) == <<v>>
IsSome(o) == o # <<>>
Val(o) == o[1]

(***************************************************************************)
(* Strings, as far as length and trim() see them: lead whitespace          *)
(* characters, then core characters that begin and end with a              *)
(* non-whitespace character, then trail whitespace characters.  A string   *)
(* of whitespace only has core = 0 and trail = 0.                          *)
(***************************************************************************)
Str(l, k, t) == IF k = 0 THEN [lead |-> l + t, core |-> 0, trail |-> 0]
                ELSE [lead |-> l, core |-> k, trail |-> t]
StrLen(s) == s.lead + s.core + s.trail
Trim(s) == [lead |-> 0, core |-> s.core, trail |-> 0]

CoreLens == {0, 1, MaxContentLen, MaxContentLen + 1}
Contents == {Str(p, k, p) : p \in 0..MaxPad, k \in CoreLens}
PlainContents == {Str(0, k, 0) : k \in {1, MaxContentLen + 1}}

(***************************************************************************)
(* Character provider: storage.getCharacter.  Character i belongs to user  *)
(* i; ids above NumChars name no character.                                *)
(***************************************************************************)
CharIds == 1..(NumChars + 1)
OptCharIds == {None} \cup {Some(i) : i \in CharIds}
getCharacter(id) ==
    IF id \in 1..NumChars
    THEN Some([id |-> id, userId |-> id,
               firstName |-> <<"first", id>>,
               middleName |-> IF id % 2 = 0 THEN Some(<<"middle", id>>) ELSE None,
               lastName |-> <<"last", id>>])
    ELSE None

(***************************************************************************)
(* Message store: storage.createMessage.                                   *)
(***************************************************************************)
ContentOk(content) ==
    /\ StrLen(Trim(content)) >= 1
    /\ StrLen(Trim(content)) <= MaxContentLen

NewRow(rows, data) ==
    [id |-> Len(rows) + 1,
     roomId |-> data.roomId,
     characterId |-> data.characterId,
     content |-> Trim(data.content),
     messageType |-> data.messageType,
     createdAt |-> now,
     archivedAt |-> None]

createMessageOk(data) == ContentOk(data.content)

createMessage(rows, data) == Append(rows, NewRow(rows, data))

(***************************************************************************)
(* Message store: storage.getMessagesByRoom, newest first.                 *)
(***************************************************************************)
Reverse(seq) == [i \in 1..Len(seq) |-> seq[Len(seq) + 1 - i]]
Min(a, b) == IF a <= b THEN a ELSE b
RoomRows(rows, roomId) == SelectSeq(rows, LAMBDA m : m.roomId = roomId)
Page(seq, limit, offset) ==
    IF offset >= Len(seq) \/ limit = 0 THEN <<>>
    ELSE SubSeq(seq, offset + 1, Min(Len(seq), offset + limit))

getMessagesByRoom(rows, roomId, limit, offset) ==
    Page(Reverse(RoomRows(rows, roomId)), limit, offset)

(***************************************************************************)
(* insertMessageSchema.parse: the Message shape.                           *)
(***************************************************************************)
SchemaOk(input) ==
    /\ IsSome(input.roomId)
    /\ IsSome(input.content)
    /\ ContentOk(Val(input.content))

SchemaParse(input) ==
    [roomId |-> Val(input.roomId),
     characterId |-> input.characterId,
     content |-> Val(input.content),
     messageType |-> input.messageType]

(***************************************************************************)
(* Server-to-client events.                                                *)
(***************************************************************************)
ErrorEvent(text) == [type |-> "error", text |-> text]
AuthenticatedEvent == [type |-> "authenticated", success |-> TRUE]
NewMessageEvent(saved, character) ==
    [type |-> "new_message",
     message |-> saved,
     character |-> [firstName |-> character.firstName,
                    middleName |-> character.middleName,
                    lastName |-> character.lastName]]

Send(out, c, e) == [out EXCEPT ![c] = Append(@, e)]

(***************************************************************************)
(* The room-initialisation routine starts when registerRoutes runs and     *)
(* suspends at its first await.                                            *)
(***************************************************************************)
SeedStart == "lookup_main"

(***************************************************************************)
(* The connection map.                                                     *)
(***************************************************************************)
NoEntry == None
Binding(c) == activeConnections[c]
HasCharacter(info) == IsSome(info) /\ IsSome(Val(info).characterId)

Init ==
    /\ wsState = [c \in Conns |-> "new"]
    /\ activeConnections = [c \in Conns |-> NoEntry]
    /\ tasks = {}
    /\ log = <<>>
    /\ sent = [c \in Conns |-> <<>>]
    /\ ev = [op |-> "init", conn |-> 0, req |-> None, out |-> "none", detail |-> None]
    /\ nEvents = 0
    /\ now = 0
    /\ rooms = <<>>
    /\ seedPc = SeedStart

Observe(op, c, req, out) ==
    ev' = [op |-> op, conn |-> c, req |-> req, out |-> out, detail |-> None]

ObserveWith(op, c, req, out, detail) ==
    ev' = [op |-> op, conn |-> c, req |-> req, out |-> out, detail |-> Some(detail)]

(***************************************************************************)
(* wss.on('connection'); the socket leaving OPEN (readyState CLOSING, set  *)
(* by the transport when the close handshake starts or the peer goes       *)
(* away); and ws.on('close'), which runs in a later turn of the event      *)
(* loop.                                                                   *)
(***************************************************************************)
WsConnect(c) ==
    /\ wsState[c] = "new"
    /\ wsState' = [wsState EXCEPT ![c] = "open"]
    /\ Observe("connect", c, None, "ok")
    /\ UNCHANGED <<activeConnections, tasks, log, sent, nEvents, now, rooms, seedPc>>

WsLeaveOpen(c) ==
    /\ wsState[c] = "open"
    /\ wsState' = [wsState EXCEPT ![c] = "closing"]
    /\ Observe("closing", c, None, "ok")
    /\ UNCHANGED <<activeConnections, tasks, log, sent, nEvents, now, rooms, seedPc>>

WsClose_KeepEntry(c) ==
    /\ wsState[c] = "closing"
    /\ wsState' = [wsState EXCEPT ![c] = "closed"]
    /\ Observe("close", c, None, "ok")
    /\ UNCHANGED <<activeConnections, tasks, log, sent, nEvents, now, rooms, seedPc>>

WsClose(c) ==
    /\ wsState[c] = "closing"
    /\ wsState' = [wsState EXCEPT ![c] = "closed"]
    /\ activeConnections' = [activeConnections EXCEPT ![c] = NoEntry]
    /\ Observe("close", c, None, "ok")
    /\ UNCHANGED <<tasks, log, sent, nEvents, now, rooms, seedPc>>

Receive(c) ==
    /\ wsState[c] = "open"
    /\ nEvents < MaxEvents
    /\ Cardinality(tasks) < MaxPending
    /\ nEvents' = nEvents + 1

(***************************************************************************)
(* ws.on('message'): a payload JSON.parse rejects.                         *)
(***************************************************************************)
CatchReply(out, c) == Send(out, c, ErrorEvent("Invalid message format"))

WsBadJson(c) ==
    /\ Receive(c)
    /\ sent' = CatchReply(sent, c)
    /\ Observe("bad_json", c, None, "catch")
    /\ UNCHANGED <<wsState, activeConnections, tasks, log, now, rooms, seedPc>>

(***************************************************************************)
(* ws.on('message') case 'authenticate'.                                   *)
(***************************************************************************)
AuthPayloads == [userId : {1}, characterId : OptCharIds]

WsAuthenticate(c, p) ==
    /\ Receive(c)
    /\ activeConnections' = [activeConnections EXCEPT
            ![c] = Some([userId |-> p.userId, characterId |-> p.characterId])]
    /\ sent' = Send(sent, c, AuthenticatedEvent)
    /\ Observe("authenticate", c, Some(p), "ok")
    /\ UNCHANGED <<wsState, tasks, log, now, rooms, seedPc>>

(***************************************************************************)
(* ws.on('message') case 'chat_message', up to the first await.            *)
(***************************************************************************)
MessageTypes == {"ooc"}
Opt(S) == {None} \cup {Some(x) : x \in S}
ChatPayloads ==
    [roomId : Opt(Rooms),
     characterId : Opt(1..NumChars),
     content : {Some(s) : s \in PlainContents},
     messageType : Opt(MessageTypes)]
CreatePayloads ==
    [roomId : {None, Some(1)},
     characterId : {None},
     content : Opt(Contents),
     messageType : Opt(MessageTypes)]

ChatInput_ClientId(info, p) ==
    [roomId |-> p.roomId,
     characterId |-> IF IsSome(p.characterId) THEN Val(p.characterId)
                     ELSE Val(info.characterId),
     content |-> p.content,
     messageType |-> IF IsSome(p.messageType) THEN Val(p.messageType) ELSE "message"]

ChatInput(info, p) ==
    [roomId |-> p.roomId,
     characterId |-> Val(info.characterId),
     content |-> p.content,
     messageType |-> IF IsSome(p.messageType) THEN Val(p.messageType) ELSE "message"]

UnauthReply_All(out, c) ==
    [d \in Conns |-> Append(out[d], ErrorEvent("Not authenticated"))]

UnauthReply(out, c) == Send(out, c, ErrorEvent("Not authenticated"))

NewTask(c, info, p) ==
    [n |-> nEvents + 1, conn |-> c, info |-> info, message |-> p,
     pc |-> "persist", saved |-> None]

Validated(t) == SchemaParse(ChatInput(t.info, t.message))

RejectInvalid_Unbind(c, p) ==
    /\ sent' = CatchReply(sent, c)
    /\ activeConnections' = [activeConnections EXCEPT ![c] = NoEntry]
    /\ Observe("chat_message", c, Some(p), "invalid")
    /\ UNCHANGED <<wsState, tasks, log, now, rooms, seedPc>>

RejectInvalid(c, p) ==
    /\ sent' = CatchReply(sent, c)
    /\ Observe("chat_message", c, Some(p), "invalid")
    /\ UNCHANGED <<wsState, activeConnections, tasks, log, now, rooms, seedPc>>

WsChatMessage(c, p) ==
    /\ Receive(c)
    /\ LET connectionInfo == activeConnections[c] IN
       IF ~HasCharacter(connectionInfo)
       THEN /\ sent' = UnauthReply(sent, c)
            /\ Observe("chat_message", c, Some(p), "unauth")
            /\ UNCHANGED <<wsState, activeConnections, tasks, log, now, rooms, seedPc>>
       ELSE LET input == ChatInput(Val(connectionInfo), p) IN
            IF ~SchemaOk(input)
            THEN RejectInvalid(c, p)
            ELSE /\ tasks' = tasks \cup
                        {NewTask(c, Val(connectionInfo), p)}
                 /\ Observe("chat_message", c, Some(p), "await_persist")
                 /\ UNCHANGED <<wsState, activeConnections, log, sent, now, rooms, seedPc>>

(***************************************************************************)
(* ws.on('message'): a parsed payload of any other type.                   *)
(***************************************************************************)
WsOtherMessage(c) ==
    /\ Receive(c)
    /\ Observe("other", c, None, "ignored")
    /\ UNCHANGED <<wsState, activeConnections, tasks, log, sent, now, rooms, seedPc>>

(***************************************************************************)
(* await storage.createMessage(validatedMessage) settles.                  *)
(***************************************************************************)
Last(rows) == rows[Len(rows)]

PersistDone_NoCommit(t, stored) ==
    /\ t \in tasks
    /\ t.pc = "persist"
    /\ IF stored /\ createMessageOk(Validated(t))
       THEN /\ log' = log
            /\ tasks' = (tasks \ {t}) \cup
                    {[t EXCEPT !.pc = "lookup",
                               !.saved = Some(NewRow(log, Validated(t)))]}
            /\ ObserveWith("persist", t.conn, Some(t), "await_lookup", stored)
            /\ UNCHANGED <<wsState, activeConnections, sent, nEvents, now, rooms, seedPc>>
       ELSE /\ tasks' = tasks \ {t}
            /\ sent' = CatchReply(sent, t.conn)
            /\ ObserveWith("persist", t.conn, Some(t), "persist_failed", stored)
            /\ UNCHANGED <<wsState, activeConnections, log, nEvents, now, rooms, seedPc>>

PersistDone(t, stored) ==
    /\ t \in tasks
    /\ t.pc = "persist"
    /\ IF stored /\ createMessageOk(Validated(t))
       THEN /\ log' = createMessage(log, Validated(t))
            /\ tasks' = (tasks \ {t}) \cup
                    {[t EXCEPT !.pc = "lookup", !.saved = Some(Last(log'))]}
            /\ ObserveWith("persist", t.conn, Some(t), "await_lookup", stored)
            /\ UNCHANGED <<wsState, activeConnections, sent, nEvents, now, rooms, seedPc>>
       ELSE /\ tasks' = tasks \ {t}
            /\ sent' = CatchReply(sent, t.conn)
            /\ ObserveWith("persist", t.conn, Some(t), "persist_failed", stored)
            /\ UNCHANGED <<wsState, activeConnections, log, nEvents, now, rooms, seedPc>>

(***************************************************************************)
(* await storage.getCharacter(connectionInfo.characterId) settles, and the *)
(* fan-out over wss.clients.                                               *)
(***************************************************************************)
OpenClients == {c \in Conns : wsState[c] = "open"}

Deliver(out, recipients, e) ==
    [c \in Conns |-> IF c \in recipients THEN Append(out[c], e) ELSE out[c]]

Broadcast(t, character, reached, failing) ==
    LET envelope == NewMessageEvent(Val(t.saved), character)
        fanned == Deliver(sent, reached, envelope)
    IN  IF IsSome(failing)
        THEN /\ sent' = CatchReply(fanned, t.conn)
             /\ ObserveWith("fan_out", t.conn, Some(t), "send_failed", Val(failing))
        ELSE /\ sent' = fanned
             /\ Observe("fan_out", t.conn, Some(t), "broadcast")

LookupCharacterId_Current(t) ==
    IF HasCharacter(activeConnections[t.conn])
    THEN Val(Val(activeConnections[t.conn]).characterId)
    ELSE Val(t.info.characterId)

LookupCharacterId(t) == Val(t.info.characterId)

LookupDone(t, resolved) ==
    /\ t \in tasks
    /\ t.pc = "lookup"
    /\ tasks' = tasks \ {t}
    /\ UNCHANGED <<wsState, activeConnections, log, nEvents, now, rooms, seedPc>>
    /\ IF ~resolved
       THEN /\ sent' = CatchReply(sent, t.conn)
            /\ Observe("fan_out", t.conn, Some(t), "lookup_failed")
       ELSE LET character == getCharacter(LookupCharacterId(t)) IN
            IF ~IsSome(character)
            THEN /\ sent' = sent
                 /\ Observe("fan_out", t.conn, Some(t), "no_character")
            ELSE \/ Broadcast(t, Val(character), OpenClients, None)
                 \/ \E f \in OpenClients :
                        \E reached \in SUBSET (OpenClients \ {f}) :
                            Broadcast(t, Val(character), reached, Some(f))

(***************************************************************************)
(* app.post("/api/chat/messages", requireAuth, ...).  sessionUser is       *)
(* req.session.userId; a falsy field of the body is None (for content,     *)
(* also the empty string).                                                 *)
(***************************************************************************)
CreateBodies ==
    [roomId : {Some(1)},
     characterId : Opt(1..NumChars),
     content : Opt(Contents),
     messageType : Opt(MessageTypes)]

Falsy(content) == ~IsSome(content) \/ StrLen(Val(content)) = 0

MissingFields(body) ==
    ~IsSome(body.roomId) \/ ~IsSome(body.characterId) \/ Falsy(body.content)

LengthRejected(content) ==
    StrLen(content) < 1 \/ StrLen(content) > MaxContentLen

MessageData(body) ==
    [roomId |-> Val(body.roomId),
     characterId |-> Val(body.characterId),
     content |-> Trim(Val(body.content)),
     messageType |-> IF IsSome(body.messageType) THEN Val(body.messageType) ELSE "text"]

HttpTask(op, req, args) ==
    [n |-> nEvents + 1, conn |-> 0, pc |-> op, req |-> req, args |-> args]

HttpPostMessage(sessionUser, body) ==
    /\ nEvents < MaxEvents
    /\ Cardinality(tasks) < MaxPending
    /\ nEvents' = nEvents + 1
    /\ UNCHANGED <<wsState, activeConnections, log, sent, now, rooms, seedPc>>
    /\ LET req == [user |-> sessionUser, body |-> body] IN
       IF ~IsSome(sessionUser)
       THEN /\ Observe("post_message", 0, Some(req), "401")
            /\ tasks' = tasks
       ELSE IF MissingFields(body) \/ LengthRejected(Val(body.content))
       THEN /\ Observe("post_message", 0, Some(req), "400")
            /\ tasks' = tasks
       ELSE /\ tasks' = tasks \cup {HttpTask("post_message", req, MessageData(body))}
            /\ Observe("post_message", 0, Some(req), "await_store")

(***************************************************************************)
(* await storage.createMessage(messageData) settles (line 492): res.json   *)
(* or the catch.                                                           *)
(***************************************************************************)
PostMessageDone(t, stored) ==
    /\ t \in tasks
    /\ t.pc = "post_message"
    /\ tasks' = tasks \ {t}
    /\ UNCHANGED <<wsState, activeConnections, sent, nEvents, now, rooms, seedPc>>
    /\ IF stored /\ createMessageOk(t.args)
       THEN /\ log' = createMessage(log, t.args)
            /\ ObserveWith("post_message", 0, Some(t.req), "200", stored)
       ELSE /\ log' = log
            /\ ObserveWith("post_message", 0, Some(t.req), "500", stored)

(***************************************************************************)
(* The process stops and restarts: the in-memory state is lost, the        *)
(* database is kept.                                                       *)
(***************************************************************************)
Crash ==
    /\ tasks # {} \/ (\E c \in Conns : wsState[c] \in {"open", "closing"}) \/ seedPc # SeedStart
    /\ wsState' = [c \in Conns |-> IF wsState[c] = "new" THEN "new" ELSE "closed"]
    /\ activeConnections' = [c \in Conns |-> NoEntry]
    /\ tasks' = {}
    /\ seedPc' = SeedStart
    /\ Observe("crash", 0, Some(tasks), "ok")
    /\ UNCHANGED <<log, sent, nEvents, now, rooms>>

(***************************************************************************)
(* Message creation alone: one WebSocket client and the HTTP endpoint,     *)
(* over the whole range of contents.                                       *)
(***************************************************************************)
NextCreate ==
    \/ WsConnect(1)
    \/ WsAuthenticate(1, [userId |-> 1, characterId |-> Some(1)])
    \/ \E p \in CreatePayloads : WsChatMessage(1, p)
    \/ \E t \in tasks, stored \in BOOLEAN : PersistDone(t, stored)
    \/ \E t \in tasks, resolved \in BOOLEAN : LookupDone(t, resolved)
    \/ \E u \in {None, Some(1)}, b \in CreateBodies : HttpPostMessage(u, b)
    \/ \E t \in tasks, stored \in BOOLEAN : PostMessageDone(t, stored)

SpecCreate == Init /\ [][NextCreate]_vars

(***************************************************************************)
(* parseInt on a query-string value: leading whitespace, an optional sign, *)
(* then the longest run of decimal digits; NaN (None) when there is no     *)
(* digit.  A value is a sequence of characters; None is a parameter the    *)
(* request does not carry.  (No value drawn here has a 0x prefix.)         *)
(***************************************************************************)
Digits == <<"0", "1", "2", "3", "4", "5", "6", "7", "8", "9">>
IsDigit(ch) == \E d \in 1..Len(Digits) : Digits[d] = ch
DigitVal(ch) == (CHOOSE d \in 1..Len(Digits) : Digits[d] = ch) - 1

RECURSIVE SkipWs(_)
SkipWs(s) == IF s # <<>> /\ Head(s) = " " THEN SkipWs(Tail(s)) ELSE s

RECURSIVE DigitRun(_)
DigitRun(s) ==
    IF s # <<>> /\ IsDigit(Head(s)) THEN <<Head(s)>> \o DigitRun(Tail(s)) ELSE <<>>

RECURSIVE Decimal(_, _)
Decimal(acc, ds) ==
    IF ds = <<>> THEN acc ELSE Decimal(acc * 10 + DigitVal(Head(ds)), Tail(ds))

ParseInt(q) ==
    IF ~IsSome(q) THEN None
    ELSE LET t == SkipWs(Val(q))
             signed == t # <<>> /\ Head(t) \in {"-", "+"}
             run == DigitRun(IF signed THEN Tail(t) ELSE t)
         IN  IF run = <<>> THEN None
             ELSE IF signed /\ Head(t) = "-" THEN Some(0 - Decimal(0, run))
             ELSE Some(Decimal(0, run))

OrDefault(parsed, default) ==
    IF ~IsSome(parsed) \/ Val(parsed) = 0 THEN default ELSE Val(parsed)

QueryStrings ==
    {<<"0">>, <<"1">>, <<"-", "1">>, <<"a">>, <<"1", "a">>}
QueryValues == {None} \cup {Some(w) : w \in QueryStrings}
RoomParams == {Some(<<"1">>), Some(<<"2">>), Some(<<"a">>)}

(***************************************************************************)
(* The store's paginated read as the history endpoints call it.  The store *)
(* fails on a room id that is no number and on a negative limit or offset. *)
(***************************************************************************)
StoreReadOk(roomId, limit, offset) == IsSome(roomId) /\ limit >= 0 /\ offset >= 0

FetchHistory_Swapped(rows, roomId, limit, offset) ==
    getMessagesByRoom(rows, roomId, offset, limit)

FetchHistory(rows, roomId, limit, offset) ==
    getMessagesByRoom(rows, roomId, limit, offset)

ReadArgs(roomId, limit, offset) == [roomId |-> roomId, limit |-> limit, offset |-> offset]

(***************************************************************************)
(* What the observation of a read keeps besides the reply: the arguments   *)
(* that went to the store, whether the store answered, and the reply and   *)
(* the log of the time when the same request was answered just before.     *)
(***************************************************************************)
Replied(e) == e.out \in {"200", "500"}

PriorReply(op, req) ==
    IF ev.op = op /\ ev.req = Some(req) /\ Replied(ev)
    THEN Some([out |-> ev.out, body |-> Val(ev.detail).body, rows |-> log])
    ELSE None

AwaitRead(op, req, roomId, limit, offset) ==
    /\ tasks' = tasks \cup {HttpTask(op, req, ReadArgs(roomId, limit, offset))}
    /\ ev' = [op |-> op, conn |-> 0, req |-> Some(req), out |-> "await_store",
              detail |-> PriorReply(op, req)]

(***************************************************************************)
(* await storage.getMessagesByRoom(roomId, limit, offset) settles (lines   *)
(* 431, 458): res.json(messages), or the catch when the store rejects.     *)
(***************************************************************************)
ReadDone(t, ok) ==
    /\ t \in tasks
    /\ t.pc \in {"get_room_messages", "get_messages"}
    /\ tasks' = tasks \ {t}
    /\ UNCHANGED <<wsState, activeConnections, log, sent, nEvents, now, rooms, seedPc>>
    /\ LET a == t.args
           prior == IF ev.op = t.pc /\ ev.req = Some(t.req) /\ ev.out = "await_store"
                    THEN ev.detail ELSE PriorReply(t.pc, t.req)
       IN  IF ok /\ StoreReadOk(a.roomId, a.limit, a.offset)
           THEN ObserveWith(t.pc, 0, Some(t.req), "200",
                    [roomId |-> a.roomId, limit |-> a.limit, offset |-> a.offset,
                     ok |-> ok, prior |-> prior,
                     body |-> FetchHistory(log, Val(a.roomId), a.limit, a.offset)])
           ELSE ObserveWith(t.pc, 0, Some(t.req), "500",
                    [roomId |-> a.roomId, limit |-> a.limit, offset |-> a.offset,
                     ok |-> ok, prior |-> prior, body |-> <<>>])

(***************************************************************************)
(* app.get("/api/chat/rooms/:roomId/messages", requireAuth, ...).          *)
(***************************************************************************)
HttpGetRoomMessages(sessionUser, roomParam, limitQ, offsetQ) ==
    /\ nEvents < MaxEvents
    /\ Cardinality(tasks) < MaxPending
    /\ nEvents' = nEvents + 1
    /\ UNCHANGED <<wsState, activeConnections, log, sent, now, rooms, seedPc>>
    /\ LET req == [user |-> sessionUser, roomId |-> roomParam,
                   limit |-> limitQ, offset |-> offsetQ]
           roomId == ParseInt(roomParam)
           limit == OrDefault(ParseInt(limitQ), DefaultLimit)
           offset == OrDefault(ParseInt(offsetQ), DefaultOffset)
       IN  IF ~IsSome(sessionUser)
           THEN /\ Observe("get_room_messages", 0, Some(req), "401")
                /\ tasks' = tasks
           ELSE AwaitRead("get_room_messages", req, roomId, limit, offset)

(***************************************************************************)
(* app.get("/api/chat/messages", requireAuth, ...).                        *)
(***************************************************************************)
HttpGetMessages(sessionUser, roomQ, limitQ, offsetQ) ==
    /\ nEvents < MaxEvents
    /\ Cardinality(tasks) < MaxPending
    /\ nEvents' = nEvents + 1
    /\ UNCHANGED <<wsState, activeConnections, log, sent, now, rooms, seedPc>>
    /\ LET req == [user |-> sessionUser, roomId |-> roomQ,
                   limit |-> limitQ, offset |-> offsetQ]
           roomId == ParseInt(roomQ)
           limit == OrDefault(ParseInt(limitQ), DefaultLimit)
           offset == OrDefault(ParseInt(offsetQ), DefaultOffset)
       IN  IF ~IsSome(sessionUser)
           THEN /\ Observe("get_messages", 0, Some(req), "401")
                /\ tasks' = tasks
           ELSE IF ~IsSome(roomId) \/ Val(roomId) = 0
           THEN /\ Observe("get_messages", 0, Some(req), "400")
                /\ tasks' = tasks
           ELSE AwaitRead("get_messages", req, roomId, limit, offset)

(***************************************************************************)
(* The history endpoints over a store that already holds rows.             *)
(***************************************************************************)
SeedRow(i, r) ==
    [id |-> i, roomId |-> r, characterId |-> 1 + (i % NumChars),
     content |-> Str(0, 1, 0), messageType |-> IF i % 2 = 0 THEN "text" ELSE "ooc",
     createdAt |-> i, archivedAt |-> None]

SeedLogs ==
    UNION {{[i \in 1..n |-> SeedRow(i, f[i])] : f \in [1..n -> Rooms]} : n \in 0..MaxLog}

InitRead ==
    /\ wsState = [c \in Conns |-> "new"]
    /\ activeConnections = [c \in Conns |-> NoEntry]
    /\ tasks = {}
    /\ log \in SeedLogs
    /\ sent = [c \in Conns |-> <<>>]
    /\ ev = [op |-> "init", conn |-> 0, req |-> None, out |-> "none", detail |-> None]
    /\ nEvents = 0
    /\ now = Len(log) + 1
    /\ rooms = <<>>
    /\ seedPc = SeedStart

(***************************************************************************)
(* The requests of the history scenario: limit and offset each over the    *)
(* whole range with the other one missing, and both given; a room id that  *)
(* is a number, one that is not, and none; any request at any time, also   *)
(* while others are pending, with messages posted in between.              *)
(***************************************************************************)
NoQuery == <<None, None>>
ReadQueries ==
    {<<l, None>> : l \in QueryValues}
        \cup {<<None, o>> : o \in QueryValues}
        \cup {<<Some(<<"1">>), Some(<<"1">>)>>}
ReadRoom == Some(<<"1">>)
BadRooms == {None, Some(<<"a">>)}
ReadBodies ==
    [roomId : {Some(1)},
     characterId : {Some(1)},
     content : {Some(Str(0, 1, 0))},
     messageType : {None}]

NextRead ==
    \/ HttpGetRoomMessages(None, ReadRoom, None, None)
    \/ \E q \in ReadQueries : HttpGetRoomMessages(Some(1), ReadRoom, q[1], q[2])
    \/ \E r \in BadRooms \ {None} : HttpGetRoomMessages(Some(1), r, None, None)
    \/ HttpGetMessages(None, ReadRoom, None, None)
    \/ \E q \in ReadQueries : HttpGetMessages(Some(1), ReadRoom, q[1], q[2])
    \/ \E r \in BadRooms : HttpGetMessages(Some(1), r, None, None)
    \/ \E t \in tasks, ok \in BOOLEAN : ReadDone(t, ok)
    \/ \E b \in ReadBodies : HttpPostMessage(Some(1), b)
    \/ \E t \in tasks, stored \in BOOLEAN : PostMessageDone(t, stored)

SpecRead == InitRead /\ [][NextRead]_vars

(***************************************************************************)
(* app.get("/api/chat/rooms/:roomId/export", requireAuth, ...).  The rows  *)
(* the store returns carry their character (msg.character), which is       *)
(* missing when the character provider does not know the row's             *)
(* characterId; reading a name of a missing character throws.              *)
(***************************************************************************)
ExportLimit == 1000

MessageCharacter(m) == getCharacter(m.characterId)

Space == <<" ">>

FullName(character) ==
    <<character.firstName>>
        \o (IF IsSome(character.middleName)
            THEN <<Space, Val(character.middleName)>> ELSE <<>>)
        \o <<Space, character.lastName>>

ExportEntry(m) ==
    [timestamp |-> m.createdAt,
     character |-> FullName(Val(MessageCharacter(m))),
     message |-> m.content,
     type |-> m.messageType]

ExportFetch(rows, roomId) == getMessagesByRoom(rows, roomId, ExportLimit, 0)

ExportData(messages) == [i \in 1..Len(messages) |-> ExportEntry(messages[i])]

ExportThrows(messages) ==
    \E i \in 1..Len(messages) : ~IsSome(MessageCharacter(messages[i]))

HttpGetExport(sessionUser, roomParam) ==
    /\ nEvents < MaxEvents
    /\ Cardinality(tasks) < MaxPending
    /\ nEvents' = nEvents + 1
    /\ UNCHANGED <<wsState, activeConnections, log, sent, now, rooms, seedPc>>
    /\ LET req == [user |-> sessionUser, roomId |-> roomParam]
           roomId == ParseInt(roomParam)
       IN  IF ~IsSome(sessionUser)
           THEN /\ Observe("export", 0, Some(req), "401")
                /\ tasks' = tasks
           ELSE /\ tasks' = tasks \cup {HttpTask("export", req, [roomId |-> roomId])}
                /\ Observe("export", 0, Some(req), "await_store")

(***************************************************************************)
(* await storage.getMessagesByRoom(roomId, 1000, 0) settles (line 518):    *)
(* the projection and res.json(exportData), or the catch.                  *)
(***************************************************************************)
ExportDone(t, ok) ==
    /\ t \in tasks
    /\ t.pc = "export"
    /\ tasks' = tasks \ {t}
    /\ UNCHANGED <<wsState, activeConnections, log, sent, nEvents, now, rooms, seedPc>>
    /\ IF /\ ok
          /\ StoreReadOk(t.args.roomId, ExportLimit, 0)
          /\ ~ExportThrows(ExportFetch(log, Val(t.args.roomId)))
       THEN ObserveWith("export", 0, Some(t.req), "200",
                [roomId |-> t.args.roomId, ok |-> ok,
                 body |-> ExportData(ExportFetch(log, Val(t.args.roomId)))])
       ELSE ObserveWith("export", 0, Some(t.req), "500",
                [roomId |-> t.args.roomId, ok |-> ok, body |-> <<>>])

(***************************************************************************)
(* The export endpoint over a store that already holds rows, up to one     *)
(* more than the export reads, while messages keep being posted.           *)
(***************************************************************************)
FullLog(n) == [i \in 1..n |-> SeedRow(i, 1)]

ExportLogs == SeedLogs \cup {FullLog(ExportLimit), FullLog(ExportLimit + 1)}

ExportBodies ==
    [roomId : {Some(r) : r \in Rooms},
     characterId : {Some(i) : i \in CharIds},
     content : {Some(Str(0, 1, 0))},
     messageType : {None}]

InitExport ==
    /\ wsState = [c \in Conns |-> "new"]
    /\ activeConnections = [c \in Conns |-> NoEntry]
    /\ tasks = {}
    /\ log \in ExportLogs
    /\ sent = [c \in Conns |-> <<>>]
    /\ ev = [op |-> "init", conn |-> 0, req |-> None, out |-> "none", detail |-> None]
    /\ nEvents = 0
    /\ now = Len(log) + 1
    /\ rooms = <<>>
    /\ seedPc = SeedStart

NextExport ==
    \/ \E b \in ExportBodies : HttpPostMessage(Some(1), b)
    \/ \E t \in tasks, stored \in BOOLEAN : PostMessageDone(t, stored)
    \/ \E u \in {None, Some(1)}, r \in RoomParams : HttpGetExport(u, r)
    \/ \E t \in tasks, ok \in BOOLEAN : ExportDone(t, ok)

SpecExport == InitExport /\ [][NextExport]_vars

(***************************************************************************)
(* Message store: storage.archiveMessages.  Marks the rows of the room     *)
(* created strictly before the cutoff (all its rows without a cutoff) and  *)
(* returns their number.  Whether a row already marked is stamped again is *)
(* the store's choice (restamp).                                           *)
(***************************************************************************)
Selected(m, roomId, cutoff) ==
    /\ m.roomId = roomId
    /\ ~IsSome(cutoff) \/ m.createdAt < Val(cutoff)

Marked(m, restamp) ==
    IF IsSome(m.archivedAt) /\ ~restamp THEN m
    ELSE [m EXCEPT !.archivedAt = Some(now)]

archiveMessages(rows, roomId, cutoff, restamp) ==
    [i \in 1..Len(rows) |->
        IF Selected(rows[i], roomId, cutoff) THEN Marked(rows[i], restamp) ELSE rows[i]]

archivedCount(rows, roomId, cutoff) ==
    Cardinality({i \in 1..Len(rows) : Selected(rows[i], roomId, cutoff)})

(***************************************************************************)
(* app.post("/api/chat/rooms/:roomId/archive", requireAuth, ...).          *)
(* beforeDate is a timestamp in the clock's unit; a missing or falsy       *)
(* beforeDate (0) gives no cutoff.                                         *)
(***************************************************************************)
ArchiveCutoff_Ignored(beforeDate) == None

ArchiveCutoff(beforeDate) ==
    IF IsSome(beforeDate) /\ Val(beforeDate) # 0 THEN beforeDate ELSE None

BeforeDates == Opt(0..(MaxTime + 1))

HttpPostArchive(sessionUser, roomParam, beforeDate) ==
    /\ nEvents < MaxEvents
    /\ Cardinality(tasks) < MaxPending
    /\ nEvents' = nEvents + 1
    /\ UNCHANGED <<wsState, activeConnections, log, sent, now, rooms, seedPc>>
    /\ LET req == [user |-> sessionUser, roomId |-> roomParam, beforeDate |-> beforeDate]
           roomId == ParseInt(roomParam)
           cutoff == ArchiveCutoff(beforeDate)
       IN  IF ~IsSome(sessionUser)
           THEN /\ Observe("archive", 0, Some(req), "401")
                /\ tasks' = tasks
           ELSE /\ tasks' = tasks \cup
                        {HttpTask("archive", req, [roomId |-> roomId, cutoff |-> cutoff])}
                /\ Observe("archive", 0, Some(req), "await_store")

(***************************************************************************)
(* await storage.archiveMessages(roomId, beforeDate) settles (line 507):   *)
(* res.json with the count, or the catch.                                  *)
(***************************************************************************)
ArchiveDone(t, stored, restamp) ==
    /\ t \in tasks
    /\ t.pc = "archive"
    /\ tasks' = tasks \ {t}
    /\ UNCHANGED <<wsState, activeConnections, sent, nEvents, now, rooms, seedPc>>
    /\ IF stored /\ IsSome(t.args.roomId)
       THEN /\ log' = archiveMessages(log, Val(t.args.roomId), t.args.cutoff, restamp)
            /\ ObserveWith("archive", 0, Some(t.req), "200",
                    [roomId |-> t.args.roomId, cutoff |-> t.args.cutoff,
                     count |-> archivedCount(log, Val(t.args.roomId), t.args.cutoff)])
       ELSE /\ log' = log
            /\ ObserveWith("archive", 0, Some(t.req), "500",
                    [roomId |-> t.args.roomId, cutoff |-> t.args.cutoff, count |-> 0])

(***************************************************************************)
(* Time passes.                                                            *)
(***************************************************************************)
Tick ==
    /\ now < MaxTime
    /\ now' = now + 1
    /\ Observe("tick", 0, None, "ok")
    /\ UNCHANGED <<wsState, activeConnections, tasks, log, sent, nEvents, rooms, seedPc>>

(***************************************************************************)
(* Posting, archiving and reading back, as time passes.                    *)
(***************************************************************************)
ArchiveBodies ==
    [roomId : {Some(r) : r \in Rooms},
     characterId : {Some(1)},
     content : {Some(Str(0, 1, 0))},
     messageType : {None}]

NextArchive ==
    \/ Tick
    \/ \E b \in ArchiveBodies : HttpPostMessage(Some(1), b)
    \/ \E t \in tasks, stored \in BOOLEAN : PostMessageDone(t, stored)
    \/ \E u \in {None, Some(1)}, r \in RoomParams, d \in BeforeDates :
            HttpPostArchive(u, r, d)
    \/ \E t \in tasks, stored \in BOOLEAN, restamp \in BOOLEAN :
            ArchiveDone(t, stored, restamp)
    \/ \E r \in RoomParams : HttpGetRoomMessages(Some(1), r, None, None)
    \/ \E t \in tasks, ok \in BOOLEAN : ReadDone(t, ok)

SpecArchive == Init /\ [][NextArchive]_vars

(***************************************************************************)
(* The server as a whole: the WebSocket handlers and every chat endpoint,  *)
(* in any order, each handler suspended at its await while others run.     *)
(***************************************************************************)
HttpBodies ==
    [roomId : {Some(1)},
     characterId : {Some(1)},
     content : {Some(Str(0, 1, 0))},
     messageType : {None}]

Next ==
    \/ \E c \in Conns : WsConnect(c)
    \/ \E c \in Conns : WsLeaveOpen(c)
    \/ \E c \in Conns : WsClose(c)
    \/ \E c \in Conns : WsBadJson(c)
    \/ \E c \in Conns, p \in AuthPayloads : WsAuthenticate(c, p)
    \/ \E c \in Conns, p \in ChatPayloads : WsChatMessage(c, p)
    \/ \E c \in Conns : WsOtherMessage(c)
    \/ \E t \in tasks, stored \in BOOLEAN : PersistDone(t, stored)
    \/ \E t \in tasks, resolved \in BOOLEAN : LookupDone(t, resolved)
    \/ \E b \in HttpBodies : HttpPostMessage(Some(1), b)
    \/ \E t \in tasks, stored \in BOOLEAN : PostMessageDone(t, stored)
    \/ HttpGetRoomMessages(Some(1), ReadRoom, None, None)
    \/ HttpGetMessages(Some(1), ReadRoom, None, None)
    \/ \E t \in tasks, ok \in BOOLEAN : ReadDone(t, ok)
    \/ HttpGetExport(Some(1), ReadRoom)
    \/ \E t \in tasks, ok \in BOOLEAN : ExportDone(t, ok)
    \/ HttpPostArchive(Some(1), ReadRoom, None)
    \/ \E t \in tasks, stored \in BOOLEAN, restamp \in BOOLEAN :
            ArchiveDone(t, stored, restamp)
    \/ Crash

Spec == Init /\ [][Next]_vars

(***************************************************************************)
(* Room directory: storage.getChatRoomByName and storage.createChatRoom.   *)
(* The directory itself enforces no uniqueness of names.                   *)
(***************************************************************************)
MainRoomName == "Hlavní chat"
TestRoomName == "Testovací chat"
WellKnownNames == {MainRoomName, TestRoomName}

NamedRooms(dir, name) == SelectSeq(dir, LAMBDA r : r.name = name)

getChatRoomByName(dir, name) ==
    IF NamedRooms(dir, name) = <<>> THEN None ELSE Some(Head(NamedRooms(dir, name)))

createChatRoom(dir, data) ==
    Append(dir, [id |-> Len(dir) + 1, name |-> data.name,
                 isPublic |-> data.isPublic, createdAt |-> now])

(***************************************************************************)
(* Initialize default chat rooms if they don't exist: the async routine    *)
(* started by registerRoutes, one action per await that settles.  Any      *)
(* rejected store call ends the routine in its catch.                      *)
(***************************************************************************)
SeedName(pc) == IF pc \in {"lookup_main", "create_main"} THEN MainRoomName ELSE TestRoomName
SeedAfter(pc) == IF pc \in {"lookup_main", "create_main"} THEN "lookup_test" ELSE "done"
SeedCreateStep(pc) == IF pc = "lookup_main" THEN "create_main" ELSE "create_test"

SeedAbsent_Always(found) == TRUE

SeedAbsent(found) == ~IsSome(found)

SeedLookup(ok) ==
    /\ seedPc \in {"lookup_main", "lookup_test"}
    /\ UNCHANGED <<wsState, activeConnections, tasks, log, sent, nEvents, now, rooms>>
    /\ IF ~ok
       THEN /\ seedPc' = "done"
            /\ Observe("seed", 0, Some(SeedName(seedPc)), "failed")
       ELSE IF SeedAbsent(getChatRoomByName(rooms, SeedName(seedPc)))
       THEN /\ seedPc' = SeedCreateStep(seedPc)
            /\ Observe("seed", 0, Some(SeedName(seedPc)), "absent")
       ELSE /\ seedPc' = SeedAfter(seedPc)
            /\ Observe("seed", 0, Some(SeedName(seedPc)), "present")

SeedCreate(ok) ==
    /\ seedPc \in {"create_main", "create_test"}
    /\ UNCHANGED <<wsState, activeConnections, tasks, log, sent, nEvents, now>>
    /\ IF ~ok
       THEN /\ seedPc' = "done"
            /\ rooms' = rooms
            /\ Observe("seed", 0, Some(SeedName(seedPc)), "failed")
       ELSE /\ seedPc' = SeedAfter(seedPc)
            /\ rooms' = createChatRoom(rooms, [name |-> SeedName(seedPc), isPublic |-> TRUE])
            /\ Observe("seed", 0, Some(SeedName(seedPc)), "created")

(***************************************************************************)
(* Start-up after start-up against the same database, while clients        *)
(* connect and leave.                                                      *)
(***************************************************************************)
NextSeed ==
    \/ \E c \in Conns : WsConnect(c)
    \/ \E c \in Conns : WsLeaveOpen(c)
    \/ \E c \in Conns : WsClose(c)
    \/ \E ok \in BOOLEAN : SeedLookup(ok)
    \/ \E ok \in BOOLEAN : SeedCreate(ok)
    \/ Tick
    \/ Crash

SpecSeed == Init /\ [][NextSeed]_vars

(***************************************************************************)
(* Properties.                                                             *)
(***************************************************************************)
IsError(e) == e.type = "error"
IsEnvelope(e) == e.type = "new_message"
Added(c) == SubSeq(sent'[c], Len(sent[c]) + 1, Len(sent'[c]))
Grew(c) == Len(sent'[c]) >= Len(sent[c]) /\ SubSeq(sent'[c], 1, Len(sent[c])) = sent[c]
OneErrorTo(c) ==
    /\ \A d \in Conns : Grew(d)
    /\ Len(Added(c)) = 1 /\ IsError(Added(c)[1])
    /\ \A d \in Conns \ {c} : Added(d) = <<>>

\* C1: a chat_message from a connection with no bound characterId (no entry,
\* or an entry without characterId) sends exactly one error notice to that
\* connection and does nothing else: the log is unchanged, no handler is
\* left running and no other connection is sent anything.
C1_UnauthenticatedChatOnlyNotifies ==
    [][(ev'.op = "chat_message" /\ ~HasCharacter(activeConnections[ev'.conn]))
        => /\ OneErrorTo(ev'.conn)
           /\ log' = log
           /\ tasks' = tasks
           /\ activeConnections' = activeConnections]_vars

C1_Witness ==
    /\ ev.op = "chat_message"
    /\ IsSome(activeConnections[ev.conn])
    /\ ~IsSome(Val(activeConnections[ev.conn]).characterId)
    /\ Len(sent[ev.conn]) >= 2
    /\ IsError(Last(sent[ev.conn]))

\* C2: every row the dispatcher persists for a chat_message carries the
\* characterId that was bound to the connection when the event was received,
\* whatever characterId the payload embeds and whatever the connection is
\* bound to by the time the write completes.
C2_PersistedUnderBoundIdentity ==
    [][/\ (ev'.op = "chat_message" /\ tasks' # tasks)
            => \A t \in tasks' \ tasks :
                   /\ t.conn = ev'.conn
                   /\ Some(t.info) = activeConnections[ev'.conn]
       /\ (ev'.op = "persist" /\ log' # log)
            => /\ Len(log') = Len(log) + 1
               /\ Last(log').characterId = Val(Val(ev'.req).info.characterId)]_vars

C2_Witness ==
    /\ ev.op = "persist"
    /\ ev.out = "await_lookup"
    /\ IsSome(Val(ev.req).message.characterId)
    /\ Val(Val(ev.req).message.characterId) # Last(log).characterId
    /\ Last(log).characterId = Val(Val(ev.req).info.characterId)

GotEnvelope(c, m) ==
    \E i \in 1..Len(Added(c)) : IsEnvelope(Added(c)[i]) /\ Added(c)[i].message = m

\* C3: when a handler that persisted a chat_message finishes, a new_message
\* envelope carrying the persisted row has been sent to every open
\* connection; and right after the write, getMessagesByRoom(roomId, 50, 0)
\* for the row's room returns that row first.
C3_PersistedIsBroadcastAndFirst ==
    [][/\ (ev'.op = "persist" /\ log' # log)
            => LET page == getMessagesByRoom(log', Last(log').roomId, DefaultLimit, 0)
               IN  Len(page) >= 1 /\ Head(page) = Last(log')
       /\ (ev'.op = "fan_out")
            => \A c \in OpenClients : GotEnvelope(c, Val(Val(ev'.req).saved))]_vars

\* C4: when the send to one recipient fails during the fan-out, every other
\* open recipient is still sent the envelope, the persisted row stays in the
\* log, and the sender is sent no error notice.
C4_SendFailureIsIsolated ==
    [][(ev'.op = "fan_out" /\ ev'.out = "send_failed")
        => /\ \A c \in OpenClients \ {Val(ev'.detail)} :
                    GotEnvelope(c, Val(Val(ev'.req).saved))
           /\ log' = log
           /\ \A i \in 1..Len(Added(ev'.conn)) : ~IsError(Added(ev'.conn)[i])]_vars

\* C6: every step at which a chat event fails (unparseable payload, no
\* binding, invalid payload, failed write, failed or empty character lookup)
\* sends one error notice to the originating connection and nothing to any
\* other connection.
FailedOutcomes ==
    {"catch", "unauth", "invalid", "persist_failed", "lookup_failed", "no_character"}
C6_EveryFailureNotifiesOriginator ==
    [][(ev'.out \in FailedOutcomes) => OneErrorTo(ev'.conn)]_vars

\* C5: every row of the log has content c with 1 <= length(trim(c)) <= 5000,
\* whichever path wrote it; a create request (POST /api/chat/messages by a
\* session user with roomId and characterId, or chat_message with roomId on a
\* bound connection) is rejected and leaves the log unchanged when its
\* content is missing or its trimmed length is 0 or above 5000, and is
\* accepted when its trimmed length is in 1..5000 (the write then succeeds
\* unless the store itself fails).
Acceptable(content) == IsSome(content) /\ ContentOk(Val(content))
PostComplete(r) ==
    IsSome(r.user) /\ IsSome(r.body.roomId) /\ IsSome(r.body.characterId)
C5_ContentBounds ==
    [][/\ \A i \in 1..Len(log') : ContentOk(log'[i].content)
       /\ (ev'.op = "post_message" /\ PostComplete(Val(ev'.req)))
            => IF Acceptable(Val(ev'.req).body.content)
               THEN /\ ev'.out \in {"await_store", "200", "500"}
                    /\ ev'.out = "500" => ~Val(ev'.detail)
                    /\ ev'.out = "200" => Len(log') = Len(log) + 1
               ELSE ev'.out # "200" /\ log' = log
       /\ (/\ ev'.op = "chat_message"
           /\ HasCharacter(activeConnections[ev'.conn])
           /\ IsSome(Val(ev'.req).roomId))
            => IF Acceptable(Val(ev'.req).content)
               THEN ev'.out = "await_persist"
               ELSE ev'.out = "invalid" /\ log' = log /\ tasks' = tasks
       /\ (ev'.op = "persist" /\ Val(ev'.detail))
            => (ev'.out = "await_lookup" /\ Len(log') = Len(log) + 1)]_vars

\* C7: a chat event rejected with an error notice (unparseable payload,
\* unauthenticated, invalid payload, failed write) changes nothing else: the
\* log, the connection map and the other handlers are as before and no
\* envelope is sent; and a valid chat_message from a bound connection is
\* accepted, so the rejected connection can retry.
RejectedOutcomes == {"catch", "unauth", "invalid", "persist_failed"}
C7_RejectionHasNoOtherEffect ==
    [][/\ (ev'.out \in RejectedOutcomes)
            => /\ OneErrorTo(ev'.conn)
               /\ log' = log
               /\ activeConnections' = activeConnections
               /\ wsState' = wsState
               /\ tasks' = IF ev'.op = "persist" THEN tasks \ {Val(ev'.req)} ELSE tasks
       /\ (/\ ev'.op = "chat_message"
           /\ HasCharacter(activeConnections[ev'.conn])
           /\ SchemaOk(ChatInput(Val(activeConnections[ev'.conn]), Val(ev'.req))))
            => /\ ev'.out = "await_persist"
               /\ Cardinality(tasks') = Cardinality(tasks) + 1]_vars

C7_Witness ==
    /\ ev.op = "chat_message"
    /\ ev.out = "await_persist"
    /\ Len(sent[ev.conn]) = 2
    /\ sent[ev.conn][1] = AuthenticatedEvent
    /\ sent[ev.conn][2] = ErrorEvent("Invalid message format")

\* C8: every new_message envelope sent so far carries a row of the log, every
\* handler past its write holds a row of the log, and when the process
\* crashes with a handler between its write and its fan-out the row it wrote
\* is still in the log.  (A row of the log: the row stored under that id
\* has the same fields, its archive marker aside, the one field a stored
\* row can change after the write.)
SameMessage(stored, m) == stored = [m EXCEPT !.archivedAt = stored.archivedAt]
InLog(m) == m.id \in 1..Len(log) /\ SameMessage(log[m.id], m)
C8_PersistedBeforeFanOut ==
    /\ \A c \in Conns : \A i \in 1..Len(sent[c]) :
            IsEnvelope(sent[c][i]) => InLog(sent[c][i].message)
    /\ \A t \in tasks : t.pc = "lookup" => IsSome(t.saved) /\ InLog(Val(t.saved))
    /\ ev.op = "crash"
            => \A t \in Val(ev.req) : t.pc = "lookup" => InLog(Val(t.saved))

C8_Witness ==
    /\ ev.op = "crash"
    /\ \E t \in Val(ev.req) :
            /\ t.pc = "lookup"
            /\ InLog(Val(t.saved))
            /\ \A c \in Conns : \A i \in 1..Len(sent[c]) :
                    IsEnvelope(sent[c][i]) => sent[c][i].message # Val(t.saved)

\* C9: a history read that reaches the store with a room id, limit >= 0 and
\* offset >= 0, and that the store answers, returns rows of that room only, in strictly
\* descending id order, at most limit of them, the i-th row being the one
\* with exactly offset + i - 1 newer rows in the room (the full newest-first
\* sequence with its first offset rows skipped), hence no row when offset is
\* at or beyond the room's row count; the same request answered twice in a
\* row against the same log gets the same rows.
ReadOps == {"get_room_messages", "get_messages"}
RoomSet(rows, r) == {rows[j] : j \in {k \in 1..Len(rows) : rows[k].roomId = r}}
Newer(rows, m) == Cardinality({x \in RoomSet(rows, m.roomId) : x.id > m.id})
Remaining(rows, r, offset) ==
    IF Cardinality(RoomSet(rows, r)) > offset
    THEN Cardinality(RoomSet(rows, r)) - offset ELSE 0
PageOk(rows, d) ==
    LET body == d.body
        r == Val(d.roomId)
    IN  /\ \A i \in 1..Len(body) : body[i] \in RoomSet(rows, r)
        /\ \A i \in 1..(Len(body) - 1) : body[i].id > body[i + 1].id
        /\ Len(body) <= d.limit
        /\ \A i \in 1..Len(body) : Newer(rows, body[i]) = d.offset + i - 1
        /\ Len(body) = Min(d.limit, Remaining(rows, r, d.offset))
        /\ d.offset >= Cardinality(RoomSet(rows, r)) => body = <<>>
StoreCalled(e) == e.op \in ReadOps /\ Replied(e)
C9_PaginatedRead ==
    [][/\ (/\ StoreCalled(ev')
           /\ Val(ev'.detail).ok
           /\ StoreReadOk(Val(ev'.detail).roomId, Val(ev'.detail).limit,
                          Val(ev'.detail).offset))
            => ev'.out = "200" /\ PageOk(log', Val(ev'.detail))
       /\ (/\ StoreCalled(ev')
           /\ ev'.out = "200"
           /\ IsSome(Val(ev'.detail).prior)
           /\ Val(Val(ev'.detail).prior).out = "200"
           /\ Val(Val(ev'.detail).prior).rows = log')
            => Val(ev'.detail).body = Val(Val(ev'.detail).prior).body]_vars

C9_Witness ==
    /\ StoreCalled(ev)
    /\ nEvents = 2
    /\ ev.out = "200"
    /\ Val(ev.detail).limit = 1
    /\ Val(ev.detail).offset = 1
    /\ Len(Val(ev.detail).body) = 1
    /\ Cardinality(RoomSet(log, Val(Val(ev.detail).roomId))) = 2
    /\ Len(log) = 3
    /\ IsSome(Val(ev.detail).prior)
    /\ Val(Val(ev.detail).prior).out = "200"

\* C10: on both history endpoints the limit and offset passed to the store
\* are the caller's values when those are non-negative integers (0
\* included) and the defaults 50 and 0 when they are missing or not a
\* non-negative integer, and the request does not fail because of them
\* (it succeeds whenever the room id is a number and the store answers).
IsNonNegInt(q) ==
    /\ IsSome(q)
    /\ Val(q) # <<>>
    /\ \A i \in 1..Len(Val(q)) : IsDigit(Val(q)[i])
Intended(q, default) == IF IsNonNegInt(q) THEN Decimal(0, Val(q)) ELSE default
C10_LimitOffsetDefaults ==
    StoreCalled(ev)
        => /\ Val(ev.detail).limit = Intended(Val(ev.req).limit, DefaultLimit)
           /\ Val(ev.detail).offset = Intended(Val(ev.req).offset, DefaultOffset)
           /\ (IsSome(Val(ev.detail).roomId) /\ Val(ev.detail).ok) => ev.out = "200"

\* C11: an export of a room by a session user that the store answers
\* succeeds and returns min(n, 1000) entries for a room holding n rows,
\* whatever rows the room holds, the i-th entry projecting
\* the i-th newest row of the room: timestamp = createdAt, message = content,
\* type = messageType, and character = the row's character's first name, its
\* middle name when it has one, and its last name, separated by spaces.
NameOf(name, ch) ==
    /\ Len(name) = IF IsSome(ch.middleName) THEN 5 ELSE 3
    /\ name[1] = ch.firstName
    /\ name[Len(name)] = ch.lastName
    /\ name[2] = Space /\ name[Len(name) - 1] = Space
    /\ IsSome(ch.middleName) => name[3] = Val(ch.middleName)
Exported(e) ==
    e.op = "export" /\ Replied(e) /\ Val(e.detail).ok /\ IsSome(Val(e.detail).roomId)
C11_ExportProjectsNewestThousand ==
    [][Exported(ev')
        => /\ ev'.out = "200"
           /\ \A body \in {Val(ev'.detail).body},
                 inRoom \in {RoomRows(log', Val(Val(ev'.detail).roomId))} :
                  /\ Len(body) = Min(Len(inRoom), ExportLimit)
                  /\ \A i \in 1..Len(body) :
                        LET m == inRoom[Len(inRoom) + 1 - i]
                        IN  /\ body[i].timestamp = m.createdAt
                            /\ body[i].message = m.content
                            /\ body[i].type = m.messageType
                            /\ NameOf(body[i].character, Val(getCharacter(m.characterId)))]_vars

\* C12: an archive request that succeeds leaves the log with the same rows
\* in the same places; every row of the room created strictly before the
\* cutoff passed to the store (every row of the room when no cutoff is
\* passed) has an archive marker afterwards and is otherwise as before;
\* every other row is exactly as before; the cutoff passed is the request's
\* beforeDate and none when the request carries none; a failed or refused
\* request changes nothing; no step ever clears a marker or removes a row;
\* and a history read of a room returns its archived rows too.
OnlyMarkerSet(old, new) ==
    IsSome(new.archivedAt) /\ new = [old EXCEPT !.archivedAt = new.archivedAt]
Archived(e) == e.op = "archive" /\ e.out = "200"
C12_ArchiveMarksOnlyOlderRowsOfRoom ==
    [][/\ Archived(ev')
            => \A d \in {Val(ev'.detail)} :
                /\ Len(log') = Len(log)
                /\ \A i \in 1..Len(log) :
                      IF /\ log[i].roomId = Val(d.roomId)
                         /\ ~IsSome(d.cutoff) \/ log[i].createdAt < Val(d.cutoff)
                      THEN OnlyMarkerSet(log[i], log'[i])
                      ELSE log'[i] = log[i]
                /\ ~IsSome(Val(ev'.req).beforeDate) => ~IsSome(d.cutoff)
                /\ (IsSome(Val(ev'.req).beforeDate) /\ Val(Val(ev'.req).beforeDate) > 0)
                      => d.cutoff = Val(ev'.req).beforeDate
       /\ (ev'.op = "archive" /\ ev'.out # "200") => log' = log
       /\ Len(log') >= Len(log)
       /\ \A i \in 1..Len(log) :
              /\ log'[i].id = log[i].id
              /\ IsSome(log[i].archivedAt) => IsSome(log'[i].archivedAt)
       /\ (ev'.op = "get_room_messages" /\ ev'.out = "200")
            => \A i \in 1..Len(log') :
                  (log'[i].roomId = Val(Val(ev'.detail).roomId) /\ IsSome(log'[i].archivedAt))
                      => \E j \in 1..Len(Val(ev'.detail).body) :
                            Val(ev'.detail).body[j] = log'[i]]_vars

C12_Witness ==
    /\ Archived(ev)
    /\ IsSome(Val(ev.detail).cutoff)
    /\ Val(ev.detail).count = 1
    /\ \E i, j \in 1..Len(log) :
          /\ log[i].roomId = Val(Val(ev.detail).roomId)
          /\ log[i].createdAt < Val(Val(ev.detail).cutoff)
          /\ IsSome(log[i].archivedAt)
          /\ log[j].roomId = log[i].roomId
          /\ log[j].createdAt >= Val(Val(ev.detail).cutoff)
          /\ ~IsSome(log[j].archivedAt)

\* C13: while its transport stays open, a connection that has a bound
\* characterId keeps one: no client event takes it back to a state in which
\* its chat_message is rejected as unauthenticated.
C13_BoundStaysBound ==
    [][\A c \in Conns :
          (HasCharacter(activeConnections[c]) /\ wsState'[c] = "open")
              => HasCharacter(activeConnections'[c])]_vars

\* C14 (as stated): after every step, whatever handlers are suspended, the
\* connection map holds an entry only for connections whose transport is
\* open; and a disconnect removes the entry of the closing connection and
\* leaves every other entry as it was.
C14_BindingOnlyWhileOpen ==
    [][/\ \A c \in Conns : IsSome(activeConnections'[c]) => wsState'[c] = "open"
       /\ ev'.op = "close"
            => activeConnections' = [activeConnections EXCEPT ![ev'.conn] = NoEntry]]_vars

\* C14 (amended): after every step, whatever handlers are suspended, the
\* connection map holds an entry only for connections whose transport is
\* open or has left OPEN without its close event handled yet, never for one
\* whose close event has been handled; and the close event removes the
\* entry of that connection and leaves every other entry as it was.
C14_NoBindingAfterClose ==
    [][/\ \A c \in Conns :
            IsSome(activeConnections'[c]) => wsState'[c] \in {"open", "closing"}
       /\ ev'.op = "close"
            => activeConnections' = [activeConnections EXCEPT ![ev'.conn] = NoEntry]]_vars

C14_Witness ==
    /\ ev.op = "close"
    /\ wsState[ev.conn] = "closed"
    /\ ~IsSome(activeConnections[ev.conn])
    /\ \E t \in tasks : t.conn = ev.conn /\ IsSome(t.info.characterId)
    /\ \E d \in Conns \ {ev.conn} : wsState[d] = "open" /\ HasCharacter(activeConnections[d])

\* C15: however many times the seed routine has run, one run after another,
\* the room directory never holds two rooms of the same well-known name; a
\* run that ends without a failed store call leaves exactly one room for
\* each well-known name; a lookup that finds the name creates nothing for
\* it; and a room is created only for a name the directory did not hold.
RoomCount(dir, name) == Len(NamedRooms(dir, name))
C15_SeedingIdempotent ==
    [][/\ \A name \in WellKnownNames : RoomCount(rooms', name) <= 1
       /\ (ev'.op = "seed" /\ seedPc' = "done" /\ ev'.out # "failed")
            => \A name \in WellKnownNames : RoomCount(rooms', name) = 1
       /\ (ev'.op = "seed" /\ ev'.out = "present")
            => rooms' = rooms /\ seedPc' = SeedAfter(seedPc)
       /\ (ev'.op = "seed" /\ ev'.out = "created")
            => /\ RoomCount(rooms, Val(ev'.req)) = 0
               /\ Len(rooms') = Len(rooms) + 1
               /\ rooms'[Len(rooms')].name = Val(ev'.req)
               /\ SubSeq(rooms', 1, Len(rooms)) = rooms]_vars

C15_Witness ==
    /\ ev.op = "seed"
    /\ ev.out = "present"
    /\ Val(ev.req) = TestRoomName
    /\ seedPc = "done"
    /\ Len(rooms) = 2
    /\ rooms[2].createdAt < now

\* C16: a row written for a chat_message or for a POST /api/chat/messages
\* request has the request's messageType when the request specifies one and
\* "text" when it does not.
RequestedType(r) == IF IsSome(r.messageType) THEN Val(r.messageType) ELSE "text"
C16_DefaultMessageTypeIsText ==
    [][/\ (ev'.op = "persist" /\ log' # log)
            => Last(log').messageType = RequestedType(Val(ev'.req).message)
       /\ (ev'.op = "post_message" /\ ev'.out = "200")
            => Last(log').messageType = RequestedType(Val(ev'.req).body)]_vars

\* C17: every row written through POST /api/chat/messages is attributed to
\* a character that exists and belongs to the session user of the request.
C17_PostedAsOwnCharacter ==
    [][(ev'.op = "post_message" /\ ev'.out = "200")
        => /\ IsSome(getCharacter(Last(log').characterId))
           /\ Val(getCharacter(Last(log').characterId)).userId = Val(Val(ev'.req).user)]_vars

\* C18: in every new_message envelope sent so far, the character name fields
\* are the first, middle and last name of the character whose id is the
\* characterId of the envelope's message, also when the sender was bound to
\* another character, or was gone, by the time the envelope was built.
C18_EnvelopeNamesItsCharacter ==
    \A c \in Conns : \A i \in 1..Len(sent[c]) :
        IsEnvelope(sent[c][i])
            => \A ch \in {getCharacter(sent[c][i].message.characterId)} :
                  /\ IsSome(ch)
                  /\ sent[c][i].character.firstName = Val(ch).firstName
                  /\ sent[c][i].character.middleName = Val(ch).middleName
                  /\ sent[c][i].character.lastName = Val(ch).lastName

C18_Witness ==
    /\ ev.op = "fan_out"
    /\ ev.out = "broadcast"
    /\ HasCharacter(activeConnections[ev.conn])
    /\ Val(Val(activeConnections[ev.conn]).characterId) # Val(Val(ev.req).saved).characterId
    /\ \E i \in 1..Len(sent[ev.conn]) :
          /\ IsEnvelope(sent[ev.conn][i])
          /\ sent[ev.conn][i].message = Val(Val(ev.req).saved)
====
